---- MODULE Spec2Model ----
(***************************************************************************)
(* A model of the skymap chart maker: the catalog queries of stars.py and  *)
(* milkyway.py, the drawing passes and render of mapmaker.py, the plane    *)
(* geometry the tests of test_geometry.py exercise, and the functions that *)
(* build the Milky Way table and split the star list.                      *)
(*                                                                         *)
(* Angles of the catalog queries are whole degrees.  Whole degrees are     *)
(* rendered exactly by the '{0}'.format(...) calls that build the query    *)
(* text, so a bound in the query is the number the code computed.          *)
(***************************************************************************)
EXTENDS Integers, Sequences, FiniteSets, TLC

VARIABLES
    map,      \* SkyMapMaker.map: the configured map and its angular bounding box
    figure,   \* SkyMapMaker.figure: the draw calls received so far, in order
    call,     \* the operation last invoked, with its arguments
    ret,      \* what that operation returned or raised
    db_log    \* what that operation did on the SkyMapDatabase objects it created,
              \* or the catalog functions it called

vars == <<map, figure, call, ret, db_log>>

None == [kind |-> "None"]

\* How many whole turns (multiples of 360 degrees) an input angle may be away
\* from its normalized value.
MaxTurns == 1

Abs(x) == IF x < 0 THEN -x ELSE x

Min2(a, b) == IF a <= b THEN a ELSE b

Max2(a, b) == IF a >= b THEN a ELSE b

(***************************************************************************)
(* skymap.geometry.ensure_angle_range                                      *)
(***************************************************************************)
ensure_angle_range(a) == a % 360

(***************************************************************************)
(* The catalog store.  A table is a sequence of rows in rowid order.       *)
(***************************************************************************)
StarRAs == <<0, 5, 10, 20, 180, 200, 350, 355>>

StarDecs == <<-90, 0, 90>>

StarConstellations == <<"ORI", "UMA">>

\* Row i (1-based) of skymap_stars; magnitudes are distinct, and are not in
\* rowid order.
StarRow(i) ==
    [id |-> i,
     right_ascension |-> StarRAs[((i - 1) % Len(StarRAs)) + 1],
     declination |-> StarDecs[((i - 1) \div Len(StarRAs)) + 1],
     magnitude |-> ((i * 7) % 25),
     constellation |-> StarConstellations[(i % 2) + 1]]

skymap_stars == [i \in 1..(Len(StarRAs) * Len(StarDecs)) |-> StarRow(i)]

MilkyWayPoints ==
    << <<5, 0>>, <<10, 0>>, <<180, 0>>, <<350, 0>>, <<359, 0>>,
       <<5, 40>>, <<10, 40>>, <<350, 40>> >>

\* Row i (1-based) of milkyway: one row per ordered pair of points.
MilkyWayRow(i) ==
    LET p1 == MilkyWayPoints[((i - 1) \div Len(MilkyWayPoints)) + 1]
        p2 == MilkyWayPoints[((i - 1) % Len(MilkyWayPoints)) + 1]
    IN [id |-> i - 1, ra1 |-> p1[1], dec1 |-> p1[2], ra2 |-> p2[1], dec2 |-> p2[2]]

milkyway == [i \in 1..(Len(MilkyWayPoints) * Len(MilkyWayPoints)) |-> MilkyWayRow(i)]

(***************************************************************************)
(* The WHERE clause of a query, as the database evaluates it.              *)
(*   between: col >= lo AND col <= hi                                      *)
(*   outside: (col >= lo OR col <= hi)                                     *)
(*   any:     no condition on the column                                   *)
(***************************************************************************)
Cond(mode, lo, hi) == [mode |-> mode, lo |-> lo, hi |-> hi]

AnyValue == Cond("any", 0, 0)

Holds(c, x) ==
    CASE c.mode = "any" -> TRUE
      [] c.mode = "between" -> x >= c.lo /\ x <= c.hi
      [] c.mode = "outside" -> x >= c.lo \/ x <= c.hi

\* ORDER BY magnitude ASC (insertion of each row behind the rows not fainter).
RECURSIVE InsertByMagnitude(_, _)
InsertByMagnitude(sorted, row) ==
    IF sorted = <<>> THEN <<row>>
    ELSE IF Head(sorted).magnitude <= row.magnitude
         THEN <<Head(sorted)>> \o InsertByMagnitude(Tail(sorted), row)
         ELSE <<row>> \o sorted

RECURSIVE OrderByMagnitude(_)
OrderByMagnitude(rows) ==
    IF rows = <<>> THEN <<>>
    ELSE InsertByMagnitude(OrderByMagnitude(Tail(rows)), Head(rows))

Range(s) == {s[i] : i \in DOMAIN s}

(***************************************************************************)
(* stars.select_stars                                                      *)
(***************************************************************************)
\* The right-ascension clause built from the normalized bounds.
RaClause_noWrap(min_ra, max_ra) ==
    IF min_ra < max_ra THEN Cond("between", min_ra, max_ra)
    ELSE IF max_ra < min_ra THEN Cond("between", max_ra, min_ra)
    ELSE AnyValue

RaClause(min_ra, max_ra) ==
    IF min_ra < max_ra THEN Cond("between", min_ra, max_ra)
    ELSE IF max_ra < min_ra THEN Cond("outside", min_ra, max_ra)
    ELSE AnyValue

IllegalDecRange_lax(min_dec, max_dec) ==
    min_dec < -90 \/ min_dec > 90 \/ max_dec < -90 \/ max_dec > 90 \/ max_dec < min_dec

IllegalDecRange(min_dec, max_dec) ==
    min_dec < -90 \/ min_dec > 90 \/ max_dec < -90 \/ max_dec > 90 \/ max_dec <= min_dec

\* The query text select_stars has built when it reaches the database.
StarQuery(magnitude, constellation, ra_range, dec_range) ==
    [table |-> "skymap_stars",
     magnitude |-> magnitude,
     constellation |-> constellation,
     ra |-> IF ra_range = None THEN AnyValue
            ELSE RaClause(ensure_angle_range(ra_range.min),
                          ensure_angle_range(ra_range.max)),
     dec |-> IF dec_range = None THEN AnyValue
             ELSE Cond("between", dec_range.min, dec_range.max)]

StarRowMatches(q, row) ==
    /\ row.magnitude <= q.magnitude
    /\ (q.constellation = "" \/ row.constellation = q.constellation)
    /\ Holds(q.ra, row.right_ascension)
    /\ Holds(q.dec, row.declination)

\* The rows of skymap_stars from row i on, in table order, that satisfy the query.
RECURSIVE SelectStarRows(_, _)
SelectStarRows(q, i) ==
    IF i > Len(skymap_stars) THEN <<>>
    ELSE (IF StarRowMatches(q, skymap_stars[i]) THEN <<skymap_stars[i]>> ELSE <<>>)
            \o SelectStarRows(q, i + 1)

RunStarQuery(q) == OrderByMagnitude(SelectStarRows(q, 1))

RaInputs == {b + 360 * t : b \in {0, 10, 180, 350}, t \in (-MaxTurns)..MaxTurns}

RaRanges == {[kind |-> "range", min |-> a, max |-> b] : a \in RaInputs, b \in RaInputs}

DecInputs == {-100, -90, 0, 90, 100}

DecRanges == {[kind |-> "range", min |-> a, max |-> b] : a \in DecInputs, b \in DecInputs}

\* The (magnitude, constellation) arguments tried: the faint limit with no
\* constellation, and a brighter limit within one constellation.
StarFilters == {<<24, "">>, <<12, "ORI">>}

\* An operation runs when it has been invoked and has not yet returned or raised.
Pending(name) == call.name = name /\ ret = None

select_stars ==
    /\ Pending("select_stars")
    /\ IF call.dec_range # None /\ IllegalDecRange(call.dec_range.min, call.dec_range.max)
       THEN /\ ret' = [kind |-> "raise", value |-> "ValueError: Illegal DEC range!"]
            /\ db_log' = <<>>
       ELSE LET q == StarQuery(call.magnitude, call.constellation,
                               call.ra_range, call.dec_range)
            IN /\ ret' = [kind |-> "return", value |-> RunStarQuery(q)]
               /\ db_log' = << [ev |-> "connect"], [ev |-> "query", q |-> q],
                               [ev |-> "close"] >>
    /\ UNCHANGED <<map, figure, call>>

(***************************************************************************)
(* milkyway.get_milky_way_boundary_for_area                                *)
(***************************************************************************)
\* Lines 55-58: the normalized bounds, max moved one turn up when equal to min.
MilkyWayBounds(min_longitude, max_longitude) ==
    LET lo == ensure_angle_range(min_longitude)
        hi == ensure_angle_range(max_longitude)
    IN [min |-> lo, max |-> IF hi = lo THEN hi + 360 ELSE hi]

LonClause(b) ==
    IF b.min < b.max THEN Cond("between", b.min, b.max)
    ELSE Cond("outside", b.min, b.max)

MilkyWayQuery(min_longitude, max_longitude, min_latitude, max_latitude) ==
    [table |-> "milkyway",
     ra |-> LonClause(MilkyWayBounds(min_longitude, max_longitude)),
     dec |-> Cond("between", min_latitude, max_latitude)]

MilkyWayRowMatches_both(q, row) ==
    /\ Holds(q.ra, row.ra1) /\ Holds(q.dec, row.dec1)
    /\ Holds(q.ra, row.ra2) /\ Holds(q.dec, row.dec2)

MilkyWayRowMatches(q, row) ==
    \/ Holds(q.ra, row.ra1) /\ Holds(q.dec, row.dec1)
    \/ Holds(q.ra, row.ra2) /\ Holds(q.dec, row.dec2)

SphericalPoint(longitude, latitude) == [longitude |-> longitude, latitude |-> latitude]

Line(p1, p2) == [p1 |-> p1, p2 |-> p2]

RowLine(row) == Line(SphericalPoint(row.ra1, row.dec1), SphericalPoint(row.ra2, row.dec2))

\* The rows of milkyway from row i on, in table order, that satisfy the query.
RECURSIVE SelectMilkyWayRows(_, _)
SelectMilkyWayRows(q, i) ==
    IF i > Len(milkyway) THEN <<>>
    ELSE (IF MilkyWayRowMatches(q, milkyway[i]) THEN <<milkyway[i]>> ELSE <<>>)
            \o SelectMilkyWayRows(q, i + 1)

RunMilkyWayQuery(q) == SelectMilkyWayRows(q, 1)

LatInputs == {-10, 0, 40, 50}

get_milky_way_boundary_for_area ==
    LET q == MilkyWayQuery(call.min_longitude, call.max_longitude,
                           call.min_latitude, call.max_latitude)
        result == RunMilkyWayQuery(q)
    IN /\ Pending("get_milky_way_boundary_for_area")
       /\ ret' = [kind |-> "return",
                  value |-> [i \in 1..Len(result) |-> RowLine(result[i])]]
       /\ db_log' = << [ev |-> "connect"], [ev |-> "query", q |-> q], [ev |-> "close"] >>
       /\ UNCHANGED <<map, figure, call>>

(***************************************************************************)
(* The catalog queries, called directly: one invocation, with arguments    *)
(* drawn from the input sets, run to its return.                           *)
(***************************************************************************)
SelectStarsCalls ==
    {[name |-> "select_stars", magnitude |-> f[1], constellation |-> f[2],
      ra_range |-> r, dec_range |-> d] :
        f \in StarFilters, r \in RaRanges \cup {None}, d \in DecRanges \cup {None}}

MilkyWayCalls ==
    {[name |-> "get_milky_way_boundary_for_area",
      min_longitude |-> a, max_longitude |-> b, min_latitude |-> c, max_latitude |-> d] :
        a \in RaInputs, b \in RaInputs, c \in LatInputs, d \in LatInputs}

InitQuery ==
    /\ map = None
    /\ figure = <<>>
    /\ call \in SelectStarsCalls \cup MilkyWayCalls
    /\ ret = None
    /\ db_log = <<>>

NextQuery == select_stars \/ get_milky_way_boundary_for_area

SpecQuery == InitQuery /\ [][NextQuery]_vars


(***************************************************************************)
(* skymap.map: the map a SkyMapMaker is configured with.  The angular      *)
(* bounding box is kept in half degrees (a bound of -11 is -5.5 degrees),  *)
(* so that bounds off the whole degree are among the cases.                *)
(***************************************************************************)
\* The three projections of set_polar, set_intermediate and set_equatorial,
\* with the shape each gives a parallel and a meridian, and the axes on which
\* each map labels them.  Every SkyMapMaker map is celestial.
Projections ==
    {[name |-> "AzimuthalEquidistant", parallel |-> "Circle", meridian |-> "Line",
      draw_parallel_ticks_on_horizontal_axis |-> FALSE,
      draw_parallel_ticks_on_vertical_axis |-> FALSE,
      draw_meridian_ticks_on_horizontal_axis |-> TRUE,
      draw_meridian_ticks_on_vertical_axis |-> TRUE,
      celestial |-> TRUE],
     [name |-> "EquidistantConic", parallel |-> "Circle", meridian |-> "Line",
      draw_parallel_ticks_on_horizontal_axis |-> FALSE,
      draw_parallel_ticks_on_vertical_axis |-> TRUE,
      draw_meridian_ticks_on_horizontal_axis |-> TRUE,
      draw_meridian_ticks_on_vertical_axis |-> FALSE,
      celestial |-> TRUE],
     [name |-> "EquidistantCylindrical", parallel |-> "Line", meridian |-> "Line",
      draw_parallel_ticks_on_horizontal_axis |-> FALSE,
      draw_parallel_ticks_on_vertical_axis |-> TRUE,
      draw_meridian_ticks_on_horizontal_axis |-> TRUE,
      draw_meridian_ticks_on_vertical_axis |-> FALSE,
      celestial |-> TRUE]}

Map(projection, min_longitude, max_longitude, min_latitude, max_latitude) ==
    [kind |-> "Map", projection |-> projection,
     min_longitude |-> min_longitude, max_longitude |-> max_longitude,
     min_latitude |-> min_latitude, max_latitude |-> max_latitude]

\* Map.map_parallel and Map.map_meridian: the projected curve, a Circle or a Line.
map_parallel(m, latitude) ==
    [shape |-> m.projection.parallel, of |-> "parallel", at |-> latitude]

map_meridian(m, longitude) ==
    [shape |-> m.projection.meridian, of |-> "meridian", at |-> longitude]

\* inclusive_intersect_line: the points in which a projected curve meets a
\* border line.  A parallel's line runs from the left border to the right one, a
\* meridian's line from the bottom border to the top one, and a circle crosses
\* the bottom border twice and the left and right borders once.
CrossingCount(curve, border) ==
    IF curve.shape = "Circle"
    THEN (CASE border = "bottom_border" -> 2
            [] border = "top_border" -> 0
            [] OTHER -> 1)
    ELSE IF curve.of = "parallel"
    THEN (IF border \in {"left_border", "right_border"} THEN 1 ELSE 0)
    ELSE (IF border \in {"bottom_border", "top_border"} THEN 1 ELSE 0)

inclusive_intersect_line(curve, border) ==
    [k \in 1..CrossingCount(curve, border) |->
        [kind |-> "Point", on |-> border, curve |-> curve, k |-> k]]

\* HourAngle.from_degrees for a whole number of degrees: hours and minutes,
\* truncated toward zero.
HourAngleFromDegrees(degrees) ==
    LET a == Abs(degrees)
        sign == IF degrees < 0 THEN -1 ELSE 1
    IN [hours |-> sign * (a \div 15), minutes |-> sign * ((a % 15) * 4)]

(***************************************************************************)
(* Python arithmetic on values kept in half degrees.                       *)
(***************************************************************************)
\* int(x): truncation toward zero, to whole degrees.
PyInt(x2) == IF x2 >= 0 THEN x2 \div 2 ELSE -((-x2) \div 2)

\* int(increment * math.floor(x / float(increment))), in whole degrees.
AlignedFloor_trunc(x2, increment) ==
    increment * (IF x2 >= 0 THEN x2 \div (2 * increment)
                 ELSE -((-x2) \div (2 * increment)))

AlignedFloor(x2, increment) == increment * (x2 \div (2 * increment))

\* range(start, stop, step) for step > 0.
PyRange(start, stop, step) ==
    LET n == IF stop > start THEN (stop - start + step - 1) \div step ELSE 0
    IN [i \in 1..n |-> start + (i - 1) * step]

(***************************************************************************)
(* mapmaker.SkyMapMaker                                                    *)
(***************************************************************************)
RECURSIVE Flatten(_)
Flatten(ss) == IF ss = <<>> THEN <<>> ELSE Head(ss) \o Flatten(Tail(ss))

\* draw_ticks: the draw_text calls for one curve, bottom and top borders when
\* horizontal_axis is set, then right and left borders when vertical_axis is.
BorderTicks_firstPointOnly(draw_object, text, border, pos) ==
    LET points == inclusive_intersect_line(draw_object, border)
    IN [i \in 1..(IF points = <<>> THEN 0 ELSE 1) |->
          [op |-> "draw_text", p |-> points[i], text |-> text, pos |-> pos,
           size |-> "small", delay_write |-> TRUE]]

BorderTicks(draw_object, text, border, pos) ==
    LET points == inclusive_intersect_line(draw_object, border)
    IN [i \in 1..Len(points) |->
          [op |-> "draw_text", p |-> points[i], text |-> text, pos |-> pos,
           size |-> "small", delay_write |-> TRUE]]

draw_ticks(m, draw_object, text, horizontal_axis, vertical_axis) ==
    (IF horizontal_axis
     THEN BorderTicks(draw_object, text, "bottom_border", "bot")
            \o BorderTicks(draw_object, text, "top_border", "top")
     ELSE <<>>)
    \o
    (IF vertical_axis
     THEN BorderTicks(draw_object, text, "right_border", "rt")
            \o BorderTicks(draw_object, text, "left_border", "lft")
     ELSE <<>>)

\* draw_circle for a Circle, draw_line for anything else.
DrawCurve(curve) ==
    [op |-> IF curve.shape = "Circle" THEN "draw_circle" ELSE "draw_line",
     shape |-> curve, linewidth |-> "0.2"]

\* The latitudes draw_parallels iterates over, in whole degrees.
ParallelLatitudes(m, increment) ==
    PyRange(AlignedFloor(m.min_latitude, increment),
            PyInt(m.max_latitude) + 1, increment)

DrawParallel(m, latitude) ==
    LET parallel == map_parallel(m, latitude)
        marker == [value |-> latitude, unit |-> "degrees"]
    IN <<DrawCurve(parallel)>>
        \o draw_ticks(m, parallel, marker,
                      m.projection.draw_parallel_ticks_on_horizontal_axis,
                      m.projection.draw_parallel_ticks_on_vertical_axis)

draw_parallels ==
    LET latitudes == ParallelLatitudes(map, call.increment)
    IN /\ Pending("draw_parallels")
       /\ figure' = figure
            \o <<[op |-> "comment", text |-> "Parallels"]>>
            \o Flatten([i \in 1..Len(latitudes) |-> DrawParallel(map, latitudes[i])])
       /\ ret' = [kind |-> "return", value |-> None]
       /\ UNCHANGED <<map, call, db_log>>

\* The longitudes draw_meridians iterates over, in whole degrees.
MeridianStop(m, min_longitude) ==
    LET max_longitude == PyInt(m.max_longitude)
    IN IF max_longitude - 360 < min_longitude THEN max_longitude + 1 ELSE max_longitude

MeridianLongitudes(m, increment) ==
    LET min_longitude == AlignedFloor(m.min_longitude, increment)
    IN PyRange(min_longitude, MeridianStop(m, min_longitude), increment)

MeridianMarker(m, longitude) ==
    IF m.projection.celestial
    THEN LET ha == HourAngleFromDegrees(longitude)
         IN IF longitude % 15 = 0
            THEN [value |-> ha.hours, unit |-> "h"]
            ELSE [value |-> ha.minutes, unit |-> "m"]
    ELSE [value |-> longitude, unit |-> "degrees"]

DrawMeridian(m, longitude) ==
    LET meridian == map_meridian(m, longitude)
    IN <<DrawCurve(meridian)>>
        \o draw_ticks(m, meridian, MeridianMarker(m, longitude),
                      m.projection.draw_meridian_ticks_on_horizontal_axis,
                      m.projection.draw_meridian_ticks_on_vertical_axis)

draw_meridians ==
    LET longitudes == MeridianLongitudes(map, call.increment)
    IN /\ Pending("draw_meridians")
       /\ figure' = figure
            \o <<[op |-> "comment", text |-> "Meridians"]>>
            \o Flatten([i \in 1..Len(longitudes) |-> DrawMeridian(map, longitudes[i])])
       /\ ret' = [kind |-> "return", value |-> None]
       /\ UNCHANGED <<map, call, db_log>>

(***************************************************************************)
(* The grid passes: a configured map, an empty figure, one pass invoked.   *)
(***************************************************************************)
\* Latitude bounds reach from -MaxLatitude2 to MaxLatitude2 half degrees, and
\* a viewport spans at most MaxLatitudeSpan2 half degrees of latitude.
MaxLatitude2 == 80

MaxLatitudeSpan2 == 30

\* Longitude bounds are the multiples of 10 degrees up to 10 * MaxLongitudeK.
MaxLongitudeK == 40

\* Viewports that vary in latitude, on a map showing every longitude.
LatitudeViewports ==
    {<<0, 720, lo, lo + span>> :
        lo \in (-MaxLatitude2)..MaxLatitude2, span \in 1..MaxLatitudeSpan2}

\* Viewports that vary in longitude, min above max (across the seam) included.
LongitudeViewports ==
    {<<20 * a, 20 * b, -50, 50>> : a \in 0..MaxLongitudeK, b \in 0..MaxLongitudeK}

GridCalls ==
    {[name |-> "draw_parallels", increment |-> i] : i \in {5, 10}}
        \cup {[name |-> "draw_meridians", increment |-> i] : i \in {10, 15}}

InitGrid ==
    /\ \E projection \in Projections,
          v \in LatitudeViewports \cup LongitudeViewports :
            map = Map(projection, v[1], v[2], v[3], v[4])
    /\ figure = <<>>
    /\ call \in GridCalls
    /\ ret = None
    /\ db_log = <<>>

NextGrid == draw_parallels \/ draw_meridians

SpecGrid == InitGrid /\ [][NextGrid]_vars


(***************************************************************************)
(* skymap.geometry: Point, Circle, Rectangle.  Coordinates are whole       *)
(* numbers of a page unit; the corners given to Rectangle.center are even, *)
(* so that the midpoint is a whole number of units too.                    *)
(***************************************************************************)
Point(x, y) == [kind |-> "Point", x |-> x, y |-> y]

Circle(center, radius) == [kind |-> "Circle", center |-> center, radius |-> radius]

Rectangle(p1, p2) == [kind |-> "Rectangle", p1 |-> p1, p2 |-> p2]

\* Rectangle.center: the midpoint of the two defining corners.
RectangleCenter_halfSize(r) ==
    Point((r.p2.x - r.p1.x) \div 2, (r.p2.y - r.p1.y) \div 2)

RectangleCenter(r) ==
    Point((r.p1.x + r.p2.x) \div 2, (r.p1.y + r.p2.y) \div 2)

\* The extent of a shape on each axis: a rectangle's own, a circle's bounding box.
Extent_noRadius(shape) ==
    IF shape.kind = "Circle"
    THEN [xlo |-> shape.center.x, xhi |-> shape.center.x,
          ylo |-> shape.center.y, yhi |-> shape.center.y]
    ELSE [xlo |-> Min2(shape.p1.x, shape.p2.x), xhi |-> Max2(shape.p1.x, shape.p2.x),
          ylo |-> Min2(shape.p1.y, shape.p2.y), yhi |-> Max2(shape.p1.y, shape.p2.y)]

Extent(shape) ==
    IF shape.kind = "Circle"
    THEN [xlo |-> shape.center.x - shape.radius, xhi |-> shape.center.x + shape.radius,
          ylo |-> shape.center.y - shape.radius, yhi |-> shape.center.y + shape.radius]
    ELSE [xlo |-> Min2(shape.p1.x, shape.p2.x), xhi |-> Max2(shape.p1.x, shape.p2.x),
          ylo |-> Min2(shape.p1.y, shape.p2.y), yhi |-> Max2(shape.p1.y, shape.p2.y)]

\* The length two intervals share.
IntervalOverlap(lo1, hi1, lo2, hi2) == Max2(0, Min2(hi1, hi2) - Max2(lo1, lo2))

\* Two intervals intersect partially: they share a length and neither holds
\* the other.
PartialOverlap(lo1, hi1, lo2, hi2) ==
    /\ IntervalOverlap(lo1, hi1, lo2, hi2) > 0
    /\ ~(lo1 <= lo2 /\ hi2 <= hi1)
    /\ ~(lo2 <= lo1 /\ hi1 <= hi2)

\* Rectangle.overlap(shape): 0 when the extents are disjoint on an axis, else
\* the shared length along the axis on which the extents intersect partially
\* (the horizontal one when both do), else 0.
RectangleOverlap_gap(r, shape) ==
    LET a == Extent(r)
        b == Extent(shape)
    IN IF PartialOverlap(a.xlo, a.xhi, b.xlo, b.xhi)
       THEN Min2(a.xhi, b.xhi) - Max2(a.xlo, b.xlo)
       ELSE Min2(a.yhi, b.yhi) - Max2(a.ylo, b.ylo)

RectangleOverlap(r, shape) ==
    LET a == Extent(r)
        b == Extent(shape)
        x == IntervalOverlap(a.xlo, a.xhi, b.xlo, b.xhi)
        y == IntervalOverlap(a.ylo, a.yhi, b.ylo, b.yhi)
    IN IF x = 0 \/ y = 0 THEN 0
       ELSE IF PartialOverlap(a.xlo, a.xhi, b.xlo, b.xhi) THEN x
       ELSE IF PartialOverlap(a.ylo, a.yhi, b.ylo, b.yhi) THEN y
       ELSE 0

Rectangle_center ==
    /\ Pending("Rectangle.center")
    /\ ret' = [kind |-> "return", value |-> RectangleCenter(call.self)]
    /\ UNCHANGED <<map, figure, call, db_log>>

Rectangle_overlap ==
    /\ Pending("Rectangle.overlap")
    /\ ret' = [kind |-> "return", value |-> RectangleOverlap(call.self, call.other)]
    /\ UNCHANGED <<map, figure, call, db_log>>

(***************************************************************************)
(* The geometry, called directly.                                          *)
(***************************************************************************)
\* Coordinates of the shapes tried reach from -MaxCoord to MaxCoord units, and
\* radii from 1 to MaxRadius.
MaxCoord == 3

MaxRadius == 2

Coords == (-MaxCoord)..MaxCoord

\* The test rectangle r3 and the circles c3, c4, c5 of test_overlap, and its unit
\* square with the circles c1 and c2 and the rectangle r2, in millionths.
TestR1 == Rectangle(Point(0, 0), Point(1000000, 1000000))

TestR2 == Rectangle(Point(500000, 0), Point(1500000, 1000000))

TestR3 == Rectangle(Point(-44165802, 1058340), Point(44165802, 4978509))

TestC1 == Circle(Point(1000000, 500000), 500000)

TestC2 == Circle(Point(4000000, 0), 500000)

TestC3 == Circle(Point(-1000000, 0), 500000)

TestC4 == Circle(Point(1000000, 0), 500000)

TestC5 == Circle(Point(1000000, 1000000), 500000)

\* Rectangle((1, 2), (5, 3)) of test_center, in quarters.
TestCenterRectangle == Rectangle(Point(4, 8), Point(20, 12))

OverlapCalls ==
    {[name |-> "Rectangle.overlap", self |-> Rectangle(Point(x1, y1), Point(x2, y2)),
      other |-> o] :
        x1 \in 0..1, x2 \in 1..2, y1 \in 0..1, y2 \in 1..2,
        o \in {Rectangle(Point(a1, b1), Point(a2, b2)) :
                    a1 \in Coords, a2 \in Coords, b1 \in {-1, 0, 1}, b2 \in {1, 2, 3}}
              \cup {Circle(Point(a, b), r) : a \in Coords, b \in Coords, r \in 1..MaxRadius}}
    \cup {[name |-> "Rectangle.overlap", self |-> TestR1, other |-> o] :
            o \in {TestR2, TestC1, TestC2}}
    \cup {[name |-> "Rectangle.overlap", self |-> TestR3, other |-> o] :
            o \in {TestC3, TestC4, TestC5}}

CenterCalls ==
    {[name |-> "Rectangle.center", self |-> Rectangle(Point(2 * x1, 2 * y1), Point(2 * x2, 2 * y2))] :
        x1 \in Coords, y1 \in Coords, x2 \in Coords, y2 \in Coords}
    \cup {[name |-> "Rectangle.center", self |-> TestCenterRectangle]}

InitGeometry ==
    /\ map = None
    /\ figure = <<>>
    /\ call \in {c \in OverlapCalls : c.self.p1.x < c.self.p2.x /\ c.self.p1.y < c.self.p2.y
                                       /\ (c.other.kind = "Rectangle" =>
                                             c.other.p1.x < c.other.p2.x
                                             /\ c.other.p1.y < c.other.p2.y)}
                \cup CenterCalls
    /\ ret = None
    /\ db_log = <<>>

NextGeometry == Rectangle_center \/ Rectangle_overlap

SpecGeometry == InitGeometry /\ [][NextGeometry]_vars


(***************************************************************************)
(* The chart: a SkyMapMaker with its page, the map made for that page, and *)
(* the star drawing pass.  Page coordinates are whole page units, star     *)
(* positions whole degrees, magnitudes tenths of a magnitude.              *)
(***************************************************************************)
\* SkyMapMaker.__init__: the fields render reads.  A tuple t of the code is a
\* sequence here, t[0] being t[1] and t[1] being t[2].
SkyMapMaker(filename, paper_size, margin_lr, margin_bt) ==
    [filename |-> filename, paper_size |-> paper_size,
     margin_lr |-> margin_lr, margin_bt |-> margin_bt]

\* The map set_polar, set_intermediate or set_equatorial makes from the
\* maker's paper size and margins: the angular bounding box, the paper width,
\* and the viewport, the page inset from the paper's edges by the margins.
ChartMap(self, projection, box) ==
    Map(projection, box[1], box[2], box[3], box[4])
        @@ [paper_width |-> self.paper_size[1],
            border |-> Rectangle(Point(self.margin_lr[1], self.margin_bt[1]),
                                 Point(self.paper_size[1] - self.margin_lr[2],
                                       self.paper_size[2] - self.margin_bt[2]))]

\* A bound of the map in whole degrees (chart maps are bounded on whole degrees).
WholeDegrees(x2) == x2 \div 2

\* Map.map_point: the page point of a position, here at one page unit per
\* degree about the middle of the bounding box, longitude growing leftwards
\* as on every celestial map.
map_point(m, sp) ==
    LET c == RectangleCenter(m.border)
        longitude0 == WholeDegrees((m.min_longitude + m.max_longitude) \div 2)
        latitude0 == WholeDegrees((m.min_latitude + m.max_latitude) \div 2)
    IN Point(c.x - (sp.longitude - longitude0), c.y + (sp.latitude - latitude0))

\* Map.inside_viewport: the point lies within the border rectangle.
inside_viewport(m, p) ==
    /\ m.border.p1.x <= p.x /\ p.x <= m.border.p2.x
    /\ m.border.p1.y <= p.y /\ p.y <= m.border.p2.y

\* Map.map_line: both endpoints projected.
map_line(m, l) == Line(map_point(m, l.p1), map_point(m, l.p2))

\* The faintest magnitude charted (6.5).
FAINTEST_MAGNITUDE == 65

\* magnitude_to_size: scale * exp(-0.27 * magnitude) with the magnitude held
\* at -0.5 from below, kept as the magnitude and paper width it is a function of.
magnitude_to_size(m, magnitude) ==
    [kind |-> "size", magnitude |-> Max2(magnitude, -5), paper_width |-> m.paper_width]

\* The length k * size + c, k in halves and c in hundredths of a page unit.
Length(halves, size, hundredths) ==
    [kind |-> "length", halves |-> halves, size |-> size, hundredths |-> hundredths]

\* The point p moved by the lengths dx and dy (None where it is not moved).
Moved(p, dx, dy) == [kind |-> "Point", from |-> p, dx |-> dx, dy |-> dy]

\* draw_star, line 122: the star is left out.
NotInsideViewport_never(m, p) == FALSE

NotInsideViewport(m, p) == ~inside_viewport(m, p)

\* draw_star: the draw calls for one star, none when its point is off the viewport.
DrawStar(m, star) ==
    LET p == map_point(m, star.position)
        size == magnitude_to_size(m, IF star.is_variable THEN star.var_max ELSE star.mag)
        symbol ==
            IF star.is_variable
            THEN <<[op |-> "draw_point", p |-> p, size |-> Length(2, size, 15),
                    color |-> "white"],
                   [op |-> "draw_circle", shape |-> Circle(p, Length(1, size, 0)),
                    linewidth |-> "0.15"]>>
                 \o (IF star.var_min < FAINTEST_MAGNITUDE
                     THEN <<[op |-> "draw_point", p |-> p,
                             size |-> Length(2, magnitude_to_size(m, star.var_min), 0),
                             color |-> None]>>
                     ELSE <<>>)
            ELSE <<[op |-> "draw_point", p |-> p, size |-> Length(2, size, 15),
                    color |-> "white"],
                   [op |-> "draw_point", p |-> p, size |-> Length(2, size, 0),
                    color |-> None]>>
        bar ==
            IF star.is_multiple
            THEN <<[op |-> "draw_line",
                    shape |-> Line(Moved(p, Length(-1, size, -20), None),
                                   Moved(p, Length(1, size, 20), None)),
                    linewidth |-> "0.25"]>>
            ELSE <<>>
        identifier ==
            IF star.identifier_string \notin {"", " "}
            THEN <<[op |-> "draw_text", p |-> Moved(p, Length(1, size, -90), None),
                    text |-> star.identifier_string, pos |-> "rt", size |-> "tiny",
                    scale |-> "0.75", delay_write |-> TRUE]>>
            ELSE <<>>
        proper ==
            IF star.proper # ""
            THEN <<[op |-> "draw_text", p |-> Moved(p, None, Length(-1, size, 80)),
                    text |-> star.proper, pos |-> "bot", size |-> "tiny",
                    scale |-> "0.75", delay_write |-> TRUE]>>
            ELSE <<>>
    IN IF NotInsideViewport(m, p) THEN <<>>
       ELSE symbol \o bar \o identifier \o proper

draw_star ==
    /\ Pending("draw_star")
    /\ figure' = figure \o DrawStar(map, call.star)
    /\ ret' = [kind |-> "return", value |-> None]
    /\ UNCHANGED <<map, call, db_log>>

\* A call of a catalog function with the map's bounding box, made when the
\* figure had received `at` calls.
CatalogCall_afterDrawing(fn, m, at) ==
    [ev |-> "call", fn |-> fn,
     box |-> <<m.min_longitude, m.max_longitude, m.min_latitude, m.max_latitude>>,
     at |-> at + 1]

CatalogCall(fn, m, at) ==
    [ev |-> "call", fn |-> fn,
     box |-> <<m.min_longitude, m.max_longitude, m.min_latitude, m.max_latitude>>,
     at |-> at]

\* draw_stars on a figure that has received n calls: the figure calls it adds
\* and the catalog call it makes, catalog.stars being what select_stars returns.
DrawStars(m, catalog, n) ==
    [figure |-> <<[op |-> "comment", text |-> "Stars"]>>
                  \o Flatten([i \in 1..Len(catalog.stars) |-> DrawStar(m, catalog.stars[i])]),
     db_log |-> <<CatalogCall("select_stars", m, n + 1)>>]

draw_stars ==
    LET pass == DrawStars(map, call.catalog, Len(figure))
    IN /\ Pending("draw_stars")
       /\ figure' = figure \o pass.figure
       /\ db_log' = db_log \o pass.db_log
       /\ ret' = [kind |-> "return", value |-> None]
       /\ UNCHANGED <<map, call>>

Polygon(points, closed) == [kind |-> "Polygon", points |-> points, closed |-> closed]

\* The identifiers draw_constellation_boundaries remembers after drawing e.
AppendDrawn_identifierOnly(drawn_edges, e) == drawn_edges \o <<e.identifier>>

AppendDrawn(drawn_edges, e) == drawn_edges \o <<e.identifier, e.complement>>

\* The loop of draw_constellation_boundaries over the edges not yet visited.
RECURSIVE DrawEdges(_, _, _)
DrawEdges(m, edges, drawn_edges) ==
    IF edges = <<>> THEN <<>>
    ELSE LET e == Head(edges)
             points == [i \in DOMAIN e.interpolated_points |->
                            map_point(m, e.interpolated_points[i])]
         IN IF e.identifier \in Range(drawn_edges)
            THEN DrawEdges(m, Tail(edges), drawn_edges)
            ELSE <<[op |-> "draw_polygon", polygon |-> Polygon(points, FALSE),
                    linewidth |-> "0.2", dashed |-> TRUE]>>
                    \o DrawEdges(m, Tail(edges), AppendDrawn(drawn_edges, e))

\* draw_constellation_boundaries on a figure that has received n calls,
\* catalog.boundaries being what get_constellation_boundaries_for_area returns.
DrawConstellationBoundaries(m, catalog, n) ==
    [figure |-> <<[op |-> "comment", text |-> "Constellation boundaries"]>>
                  \o DrawEdges(m, catalog.boundaries, <<>>),
     db_log |-> <<CatalogCall("get_constellation_boundaries_for_area", m, n + 1)>>]

draw_constellation_boundaries ==
    LET pass == DrawConstellationBoundaries(map, call.catalog, Len(figure))
    IN /\ Pending("draw_constellation_boundaries")
       /\ figure' = figure \o pass.figure
       /\ db_log' = db_log \o pass.db_log
       /\ ret' = [kind |-> "return", value |-> None]
       /\ UNCHANGED <<map, call>>

\* draw_milky_way on a figure that has received n calls: the segments
\* get_milky_way_boundary_for_area returns for the bounding box, each projected
\* and drawn.
DrawMilkyWay(m, n) ==
    LET rows == RunMilkyWayQuery(
                    MilkyWayQuery(WholeDegrees(m.min_longitude), WholeDegrees(m.max_longitude),
                                  WholeDegrees(m.min_latitude), WholeDegrees(m.max_latitude)))
    IN [figure |-> [i \in 1..Len(rows) |->
                        [op |-> "draw_line", shape |-> map_line(m, RowLine(rows[i])),
                         linewidth |-> "0.5"]],
        db_log |-> <<CatalogCall("get_milky_way_boundary_for_area", m, n)>>]

draw_milky_way ==
    LET pass == DrawMilkyWay(map, Len(figure))
    IN /\ Pending("draw_milky_way")
       /\ figure' = figure \o pass.figure
       /\ db_log' = db_log \o pass.db_log
       /\ ret' = [kind |-> "return", value |-> None]
       /\ UNCHANGED <<map, call>>

\* The direct call of draw_ticks.
SkyMapMaker_draw_ticks ==
    /\ Pending("draw_ticks")
    /\ figure' = figure \o draw_ticks(map, call.draw_object, call.text,
                                      call.horizontal_axis, call.vertical_axis)
    /\ ret' = [kind |-> "return", value |-> None]
    /\ UNCHANGED <<map, call, db_log>>

\* render, lines 176-177: the corners of the clip and border rectangle.
Borders_marginsSwapped(self) ==
    [llborder |-> Point(self.margin_lr[2], self.margin_bt[2]),
     urborder |-> Point(self.paper_size[1] - self.margin_lr[1],
                        self.paper_size[2] - self.margin_bt[1])]

Borders(self) ==
    [llborder |-> Point(self.margin_lr[1], self.margin_bt[1]),
     urborder |-> Point(self.paper_size[1] - self.margin_lr[2],
                        self.paper_size[2] - self.margin_bt[2])]

\* render, lines 178-190: what follows the drawing passes.
Finish_clipAfterBorder(self, open) ==
    LET b == Borders(self)
    IN <<[op |-> "draw_rectange", ll |-> b.llborder, ur |-> b.urborder, linewidth |-> None],
         [op |-> "clip", ll |-> b.llborder, ur |-> b.urborder],
         [op |-> "draw_rectange", ll |-> Point(0, 0),
          ur |-> Point(self.paper_size[1], self.paper_size[2]), linewidth |-> "0"],
         [op |-> "end_figure"],
         [op |-> "render", filename |-> self.filename, open |-> open]>>

Finish(self, open) ==
    LET b == Borders(self)
    IN <<[op |-> "clip", ll |-> b.llborder, ur |-> b.urborder],
         [op |-> "draw_rectange", ll |-> b.llborder, ur |-> b.urborder, linewidth |-> None],
         [op |-> "draw_rectange", ll |-> Point(0, 0),
          ur |-> Point(self.paper_size[1], self.paper_size[2]), linewidth |-> "0"],
         [op |-> "end_figure"],
         [op |-> "render", filename |-> self.filename, open |-> open]>>

\* render: the five passes with their default arguments, then the clip, the
\* two rectangles, end_figure and the writer's render.
render ==
    LET parallels == ParallelLatitudes(map, 10)
        meridians == MeridianLongitudes(map, 15)
        grid == <<[op |-> "comment", text |-> "Parallels"]>>
                  \o Flatten([i \in 1..Len(parallels) |-> DrawParallel(map, parallels[i])])
                  \o <<[op |-> "comment", text |-> "Meridians"]>>
                  \o Flatten([i \in 1..Len(meridians) |-> DrawMeridian(map, meridians[i])])
        boundaries == DrawConstellationBoundaries(map, call.catalog, Len(figure \o grid))
        milky_way == DrawMilkyWay(map, Len(figure \o grid \o boundaries.figure))
        stars == DrawStars(map, call.catalog,
                           Len(figure \o grid \o boundaries.figure \o milky_way.figure))
    IN /\ Pending("render")
       /\ figure' = figure \o grid \o boundaries.figure \o milky_way.figure
                      \o stars.figure \o Finish(call.self, call.open)
       /\ db_log' = db_log \o boundaries.db_log \o milky_way.db_log \o stars.db_log
       /\ ret' = [kind |-> "return", value |-> None]
       /\ UNCHANGED <<map, call>>

(***************************************************************************)
(* The chart passes: a maker with its map, an empty figure, and one of     *)
(* draw_ticks, draw_star, the three catalog passes or render invoked.      *)
(***************************************************************************)
\* The A4 page of the defaults, and a portrait page with unequal margins.
SkyMapMakers ==
    {SkyMapMaker("chart.mp", <<297, 210>>, <<20, 20>>, <<20, 20>>),
     SkyMapMaker("chart.mp", <<210, 297>>, <<10, 30>>, <<15, 25>>)}

\* Bounding boxes in half degrees: the polar cap with every longitude, a box
\* across the 0/360 seam, and a box away from it.
ChartBoxes == {<<0, 720, 80, 180>>, <<600, 120, -40, 60>>, <<20, 200, -60, 40>>}

PositionA == SphericalPoint(180, 60)

PositionB == SphericalPoint(350, 70)

PositionC == SphericalPoint(55, -5)

PositionD == SphericalPoint(60, -5)

\* The stars given to draw_star: constant or variable, the faintest
\* magnitude of a variable on either side of FAINTEST_MAGNITUDE, single or
\* multiple, with and without an identifier and a proper name.
Stars ==
    {[position |-> p, is_variable |-> v, var_min |-> lo, var_max |-> 50, mag |-> mag,
      is_multiple |-> x, identifier_string |-> i, proper |-> n] :
        p \in {PositionA, PositionB, PositionC}, v \in BOOLEAN, lo \in {60, 70},
        mag \in {-10, 40}, x \in BOOLEAN, i \in {"", " ", "alp"}, n \in {"", "Sirius"}}

\* The stars a catalog returns, and how many of them at most.
CatalogStars ==
    {s \in Stars : s.var_min = 60 /\ s.mag = 40 /\ s.identifier_string = "alp"
                    /\ s.proper = ""}

MaxStars == 2

\* The boundary edges a catalog returns: an edge and the same boundary from
\* the neighbouring constellation (identifier and complement exchanged), an
\* edge whose identifier another edge reuses, and an edge that is its own
\* complement; and how many of them at most.
Edge(identifier, complement, interpolated_points) ==
    [identifier |-> identifier, complement |-> complement,
     interpolated_points |-> interpolated_points]

CatalogEdges ==
    {Edge("AB", "BA", <<PositionA, PositionB>>),
     Edge("BA", "AB", <<PositionB, PositionA>>),
     Edge("CD", "DC", <<PositionC, PositionD>>),
     Edge("CD", "AB", <<PositionC, PositionD, PositionA>>),
     Edge("AA", "AA", <<PositionA, PositionC>>)}

MaxEdges == 3

SeqsUpTo(S, n) == UNION {[1..k -> S] : k \in 0..n}

Catalogs(stars, boundaries) ==
    {[stars |-> s, boundaries |-> b] : s \in stars, b \in boundaries}

ChartCalls(self, m) ==
    {[name |-> "draw_ticks", draw_object |-> o, text |-> t,
      horizontal_axis |-> h, vertical_axis |-> v] :
        o \in {map_parallel(m, 10), map_meridian(m, 15),
               [shape |-> "Circle", of |-> "meridian", at |-> 15]},
        t \in {[value |-> 10, unit |-> "degrees"], [value |-> 1, unit |-> "h"]},
        h \in BOOLEAN, v \in BOOLEAN}
    \cup {[name |-> "draw_star", star |-> s] : s \in Stars}
    \cup {[name |-> "draw_stars", catalog |-> c] :
            c \in Catalogs(SeqsUpTo(CatalogStars, MaxStars), {<<>>})}
    \cup {[name |-> "draw_constellation_boundaries", catalog |-> c] :
            c \in Catalogs({<<>>}, SeqsUpTo(CatalogEdges, MaxEdges))}
    \cup {[name |-> "draw_milky_way"]}
    \cup {[name |-> "render", self |-> self, catalog |-> c, open |-> o] :
            c \in Catalogs(SeqsUpTo({s \in CatalogStars : ~s.is_variable /\ ~s.is_multiple}, 1),
                           SeqsUpTo({e \in CatalogEdges : e.complement \in {"AB", "BA"}}, 2)),
            o \in BOOLEAN}

InitChart ==
    \E self \in SkyMapMakers, projection \in Projections, box \in ChartBoxes :
        /\ map = ChartMap(self, projection, box)
        /\ figure = <<>>
        /\ call \in ChartCalls(self, map)
        /\ ret = None
        /\ db_log = <<>>

NextChart ==
    \/ SkyMapMaker_draw_ticks
    \/ draw_star
    \/ draw_stars
    \/ draw_constellation_boundaries
    \/ draw_milky_way
    \/ render

SpecChart == InitChart /\ [][NextChart]_vars

(***************************************************************************)
(* Building the databases: the sexagesimal angles, the Milky Way outline   *)
(* files and the chunks of the star list.  A longitude read from a file is *)
(* kept in arc seconds and a latitude in arc minutes, so that every angle  *)
(* a file can hold is a whole number.                                      *)
(***************************************************************************)
\* HourAngle(h, m, s).to_degrees(): 15 * (h + m/60 + s/3600) degrees, in arc seconds.
HourAngle_to_degrees_noFactor(h, m, s) == 3600 * h + 60 * m + s

HourAngle_to_degrees(h, m, s) == 15 * (3600 * h + 60 * m + s)

\* HourAngle.from_degrees, of an angle in arc seconds: the angle over 15 taken
\* apart into whole hours and whole minutes, truncated toward zero, and the
\* seconds left, in fifteenths of a second.
HourAngle_from_degrees(arcseconds) ==
    LET a == Abs(arcseconds)
        sign == IF arcseconds < 0 THEN -1 ELSE 1
    IN [hours |-> sign * (a \div (15 * 3600)),
        minutes |-> sign * ((a % (15 * 3600)) \div (15 * 60)),
        seconds15 |-> sign * (a % (15 * 60))]

\* The two conversions one after the other.
HourAngle_round_trip ==
    /\ Pending("HourAngle")
    /\ ret' = [kind |-> "return",
               value |-> HourAngle_from_degrees(
                            HourAngle_to_degrees(call.h, call.m, call.s))]
    /\ UNCHANGED <<map, figure, call, db_log>>

\* DMSAngle(degrees=d, minutes=m).to_degrees(): sign(d) * (|d| + m/60)
\* degrees, in arc minutes.
DMSAngle_to_degrees(d, m) == (IF d < 0 THEN -1 ELSE 1) * (60 * Abs(d) + m)

\* int(text) of a two-digit numeral with or without a minus sign before it.
PyIntOfText(minus, digits) == IF minus THEN -digits ELSE digits

\* A line of an outline file after strip(): its first word, the three
\* two-digit numerals of the longitude and the sign and two numerals of the
\* latitude when the line has the form point_pattern asks for.
PointLine(word, long, lat) ==
    [word |-> word, matches |-> TRUE, long |-> long, lat |-> lat]

OtherLine(word) == [word |-> word, matches |-> FALSE]

\* extract_point: None when the line does not match point_pattern.
ExtractPoint(line) ==
    IF ~line.matches THEN None
    ELSE LET h == PyIntOfText(FALSE, line.long[1])
             m == PyIntOfText(FALSE, line.long[2])
             s == PyIntOfText(FALSE, line.long[3])
             d == PyIntOfText(line.lat.minus, line.lat.dd)
             minutes == PyIntOfText(FALSE, line.lat.mm)
         IN SphericalPoint(HourAngle_to_degrees(h, m, s), DMSAngle_to_degrees(d, minutes))

extract_point ==
    /\ Pending("extract_point")
    /\ ret' = [kind |-> "return", value |-> ExtractPoint(call.line)]
    /\ UNCHANGED <<map, figure, call, db_log>>

\* parse_file, lines 24-31: a DRAW line with both points bound to a point.
Draw_penStays(pen, p2) ==
    [p1 |-> pen.p1, edge_id |-> pen.edge_id + 1,
     inserted |-> pen.inserted
        \o <<[ev |-> "commit_query", table |-> "milkyway", id |-> pen.edge_id,
              p1 |-> pen.p1, p2 |-> p2]>>]

Draw(pen, p2) ==
    [p1 |-> p2, edge_id |-> pen.edge_id + 1,
     inserted |-> pen.inserted
        \o <<[ev |-> "commit_query", table |-> "milkyway", id |-> pen.edge_id,
              p1 |-> pen.p1, p2 |-> p2]>>]

\* The local p1 of parse_file before a MOVE line has bound it.
Unbound == [kind |-> "unbound"]

\* parse_file, lines 18-32, over the lines not yet read.  A DRAW line that
\* finds p1 unbound, or finds None in p1 or p2, raises.
RECURSIVE ParseLines(_, _)
ParseLines(lines, pen) ==
    IF lines = <<>>
    THEN [kind |-> "return", value |-> pen.edge_id, inserted |-> pen.inserted]
    ELSE LET l == Head(lines)
         IN IF l.word \in {"", ";"} THEN ParseLines(Tail(lines), pen)
            ELSE IF l.word = "MOVE"
            THEN ParseLines(Tail(lines), [pen EXCEPT !.p1 = ExtractPoint(l)])
            ELSE IF l.word = "DRAW"
            THEN (IF pen.p1 = Unbound
                  THEN [kind |-> "raise", value |-> "UnboundLocalError",
                        inserted |-> pen.inserted]
                  ELSE IF pen.p1 = None \/ ExtractPoint(l) = None
                  THEN [kind |-> "raise", value |-> "AttributeError",
                        inserted |-> pen.inserted]
                  ELSE ParseLines(Tail(lines), Draw(pen, ExtractPoint(l))))
            ELSE ParseLines(Tail(lines), pen)

ParseFile(lines, edge_id) ==
    ParseLines(lines, [p1 |-> Unbound, edge_id |-> edge_id, inserted |-> <<>>])

parse_file ==
    LET r == ParseFile(call.lines, call.edge_id)
    IN /\ Pending("parse_file")
       /\ ret' = [kind |-> r.kind, value |-> r.value]
       /\ db_log' = db_log \o r.inserted
       /\ UNCHANGED <<map, figure, call>>

\* build_milkyway_database, lines 106-125: the table dropped and created, then
\* the two files parsed, the second from the edge id the first returned.
build_milkyway_database ==
    LET start == <<[ev |-> "connect"], [ev |-> "drop_table", table |-> "milkyway"],
                   [ev |-> "commit_query", create |-> "milkyway"]>>
        first == ParseFile(call.files[1], 0)
        second == ParseFile(call.files[2], first.value)
    IN /\ Pending("build_milkyway_database")
       /\ IF first.kind = "raise"
          THEN /\ ret' = [kind |-> "raise", value |-> first.value]
               /\ db_log' = db_log \o start \o first.inserted
          ELSE IF second.kind = "raise"
          THEN /\ ret' = [kind |-> "raise", value |-> second.value]
               /\ db_log' = db_log \o start \o first.inserted \o second.inserted
          ELSE /\ ret' = [kind |-> "return", value |-> None]
               /\ db_log' = db_log \o start \o first.inserted \o second.inserted
                                \o <<[ev |-> "close"]>>
       /\ UNCHANGED <<map, figure, call>>

(***************************************************************************)
(* stars.chunks                                                            *)
(***************************************************************************)
\* l[start:stop] for start >= 0 and stop >= 0: both ends held at len(l).
PySlice(l, start, stop) ==
    SubSeq(l, Min2(start, Len(l)) + 1, Min2(stop, Len(l)))

\* int(1.0 * len(l) / n + 0.5)
ChunkLength(l, n) == (2 * Len(l) + n) \div (2 * n)

\* The last chunk, l[n*newn-newn:].
LastChunk_cut(l, n, newn) == PySlice(l, n * newn - newn, n * newn)

LastChunk(l, n, newn) == PySlice(l, n * newn - newn, Len(l))

\* The chunks in the order the generator yields them.
Chunks(l, n) ==
    LET newn == ChunkLength(l, n)
    IN [k \in 1..(n - 1) |-> PySlice(l, (k - 1) * newn, (k - 1) * newn + newn)]
        \o <<LastChunk(l, n, newn)>>

chunks ==
    /\ Pending("chunks")
    /\ ret' = [kind |-> "return", value |-> Chunks(call.l, call.n)]
    /\ UNCHANGED <<map, figure, call, db_log>>

(***************************************************************************)
(* The database builders, called directly.                                 *)
(***************************************************************************)
\* Hours run from 0 to MaxHours, minutes over 0..59, seconds over four values.
MaxHours == 23

HourAngleCalls ==
    {[name |-> "HourAngle", h |-> h, m |-> m, s |-> s] :
        h \in 0..MaxHours, m \in 0..59, s \in {0, 1, 30, 59}}

\* Lines of the form 'WORD hh mm ss, [-]dd mm', and a line off that form.
ExtractPointCalls ==
    {[name |-> "extract_point", line |-> l] :
        l \in {PointLine(w, long, [minus |-> minus, dd |-> dd, mm |-> mm]) :
                    w \in {"MOVE", "DRAW"},
                    long \in {<<0, 0, 0>>, <<12, 30, 15>>, <<23, 59, 59>>},
                    minus \in BOOLEAN, dd \in {0, 1, 45, 90}, mm \in {0, 30, 59}}
               \cup {OtherLine("MOVE")}}

\* The lines a file is made of: a blank line, a comment, MOVE and DRAW lines
\* to two points, one of them south of the equator by less than a degree, and
\* a MOVE line that is not of the form point_pattern asks for.
FileLines ==
    {OtherLine(""), OtherLine(";"), OtherLine("MOVE"),
     PointLine("MOVE", <<12, 30, 15>>, [minus |-> FALSE, dd |-> 45, mm |-> 30]),
     PointLine("MOVE", <<0, 0, 0>>, [minus |-> TRUE, dd |-> 0, mm |-> 30]),
     PointLine("DRAW", <<12, 30, 15>>, [minus |-> FALSE, dd |-> 45, mm |-> 30]),
     PointLine("DRAW", <<0, 0, 0>>, [minus |-> TRUE, dd |-> 0, mm |-> 30])}

\* A file has at most MaxLines lines.
MaxLines == 4

ParseFileCalls ==
    {[name |-> "parse_file", lines |-> f, edge_id |-> e] :
        f \in SeqsUpTo(FileLines, MaxLines), e \in {0, 7}}

BuildCalls ==
    {[name |-> "build_milkyway_database", files |-> <<f, g>>] :
        f \in SeqsUpTo(FileLines, 2), g \in SeqsUpTo(FileLines, 2)}

\* Lists of up to MaxLen elements in up to MaxChunks chunks, and the 100
\* chunks of the main program on lists around one and two elements a chunk.
MaxLen == 12

MaxChunks == 8

ChunksCalls ==
    {[name |-> "chunks", l |-> [i \in 1..len |-> i], n |-> n] :
        len \in 0..MaxLen, n \in 1..MaxChunks}
    \cup {[name |-> "chunks", l |-> [i \in 1..len |-> i], n |-> 100] :
            len \in {0, 49, 50, 149, 150, 250}}

InitBuild ==
    /\ map = None
    /\ figure = <<>>
    /\ call \in HourAngleCalls \cup ExtractPointCalls \cup ParseFileCalls
                    \cup BuildCalls \cup ChunksCalls
    /\ ret = None
    /\ db_log = <<>>

NextBuild ==
    \/ HourAngle_round_trip
    \/ extract_point
    \/ parse_file
    \/ build_milkyway_database
    \/ chunks

SpecBuild == InitBuild /\ [][NextBuild]_vars

(***************************************************************************)
(* Properties of the catalog queries.                                      *)
(***************************************************************************)
Returned(name) == call.name = name /\ ret # None /\ ret.kind = "return"

\* The wrapped-range rule of the longitude filter, on normalized bounds.
InLongitudeRange(lo, hi, lon) ==
    \/ lo < hi /\ lo <= lon /\ lon <= hi
    \/ lo > hi /\ (lon >= lo \/ lon <= hi)
    \/ lo = hi

\* The same rule without its full-circle case.
InOpenLongitudeRange(lo, hi, lon) ==
    \/ lo < hi /\ lo <= lon /\ lon <= hi
    \/ lo > hi /\ (lon >= lo \/ lon <= hi)

\* C1: select_stars selects a star on right ascension iff, with min_ra and
\* max_ra normalized to [0, 360), min_ra <= ra <= max_ra when min_ra < max_ra,
\* ra >= min_ra or ra <= max_ra when min_ra > max_ra, and always when they are
\* equal; a star is returned iff that holds and it passes the other filters.
C1_WrappedRaFilter ==
    (Returned("select_stars") /\ call.ra_range # None) =>
        LET lo == ensure_angle_range(call.ra_range.min)
            hi == ensure_angle_range(call.ra_range.max)
        IN \A i \in DOMAIN skymap_stars :
            LET row == skymap_stars[i]
                others == /\ row.magnitude <= call.magnitude
                          /\ (call.constellation = "" \/ row.constellation = call.constellation)
                          /\ (call.dec_range = None \/
                                (call.dec_range.min <= row.declination
                                    /\ row.declination <= call.dec_range.max))
            IN /\ Holds(db_log[2].q.ra, row.right_ascension)
                    <=> InLongitudeRange(lo, hi, row.right_ascension)
               /\ (row \in Range(ret.value))
                    <=> (others /\ InLongitudeRange(lo, hi, row.right_ascension))

\* A seam-crossing request (350, 10) returned the stars at 355 and 5 and none at 180.
C1_Witness ==
    /\ Returned("select_stars")
    /\ call.ra_range # None
    /\ call.ra_range.min = 350 /\ call.ra_range.max = 10
    /\ \E row \in Range(ret.value) : row.right_ascension = 355
    /\ \E row \in Range(ret.value) : row.right_ascension = 5
    /\ \A row \in Range(ret.value) : row.right_ascension >= 350 \/ row.right_ascension <= 10

\* C2: with normalized min_longitude = max_longitude,
\* get_milky_way_boundary_for_area returns every segment that has an endpoint
\* whose latitude is inside [min_latitude, max_latitude], whatever the
\* endpoint's longitude.
C2_EqualBoundsFullCircle ==
    (Returned("get_milky_way_boundary_for_area")
        /\ ensure_angle_range(call.min_longitude) = ensure_angle_range(call.max_longitude)) =>
        \A i \in DOMAIN milkyway :
            LET row == milkyway[i]
                lat_inside(dec) == call.min_latitude <= dec /\ dec <= call.max_latitude
            IN (lat_inside(row.dec1) \/ lat_inside(row.dec2)) =>
                    RowLine(row) \in Range(ret.value)

\* How many entries of a sequence equal x.
Count(s, x) == Cardinality({i \in DOMAIN s : s[i] = x})

\* C3: with normalized min_longitude # max_longitude, the result holds exactly
\* one Line for each stored segment with an endpoint inside the box (latitude in
\* the closed interval, longitude by the range rule) and none for the others.
C3_BoxSelectsSegments ==
    (Returned("get_milky_way_boundary_for_area")
        /\ ensure_angle_range(call.min_longitude) # ensure_angle_range(call.max_longitude)) =>
        LET lo == ensure_angle_range(call.min_longitude)
            hi == ensure_angle_range(call.max_longitude)
            inside(lon, lat) ==
                /\ call.min_latitude <= lat /\ lat <= call.max_latitude
                /\ InOpenLongitudeRange(lo, hi, lon)
        IN /\ \A i \in DOMAIN milkyway :
                LET row == milkyway[i]
                IN Count(ret.value, RowLine(row)) =
                    IF inside(row.ra1, row.dec1) \/ inside(row.ra2, row.dec2) THEN 1 ELSE 0
           /\ \A l \in Range(ret.value) : \E i \in DOMAIN milkyway : l = RowLine(milkyway[i])

\* A seam-crossing box (350, 10) returned a segment with one endpoint inside and
\* one outside, and left out a segment with both endpoints outside.
C3_Witness ==
    /\ Returned("get_milky_way_boundary_for_area")
    /\ call.min_longitude = 350 /\ call.max_longitude = 10
    /\ call.min_latitude = -10 /\ call.max_latitude = 0
    /\ Line(SphericalPoint(5, 0), SphericalPoint(180, 0)) \in Range(ret.value)
    /\ Line(SphericalPoint(180, 0), SphericalPoint(10, 40)) \notin Range(ret.value)

\* C4: given a dec_range with max_dec <= min_dec or a bound outside [-90, 90],
\* select_stars raises with no database connection opened and no query run, and
\* returns nothing; given any other dec_range it raises nothing and returns the
\* stars whose declination is in the closed interval [min_dec, max_dec] (and
\* that pass the other filters).
C4_IllegalDecRangeRaises ==
    (call.name = "select_stars" /\ ret # None /\ call.dec_range # None) =>
        LET min_dec == call.dec_range.min
            max_dec == call.dec_range.max
            illegal == \/ max_dec <= min_dec
                       \/ min_dec < -90 \/ min_dec > 90
                       \/ max_dec < -90 \/ max_dec > 90
        IN IF illegal
           THEN ret.kind = "raise" /\ db_log = <<>>
           ELSE /\ ret.kind = "return"
                /\ \A i \in DOMAIN skymap_stars :
                    LET row == skymap_stars[i]
                        others ==
                            /\ row.magnitude <= call.magnitude
                            /\ (call.constellation = "" \/ row.constellation = call.constellation)
                            /\ (call.ra_range = None \/
                                  InLongitudeRange(ensure_angle_range(call.ra_range.min),
                                                   ensure_angle_range(call.ra_range.max),
                                                   row.right_ascension))
                    IN (row \in Range(ret.value))
                        <=> (others /\ min_dec <= row.declination /\ row.declination <= max_dec)

\* An empty range (0, 0) was refused before the database was touched.
C4_Witness ==
    /\ call.name = "select_stars"
    /\ ret # None /\ ret.kind = "raise"
    /\ call.dec_range # None
    /\ call.dec_range.min = 0 /\ call.dec_range.max = 0
    /\ db_log = <<>>

\* The angles an invocation passes through ensure_angle_range.
AnglesOf(c) ==
    IF c.name = "select_stars"
    THEN (IF c.ra_range = None THEN {} ELSE {c.ra_range.min, c.ra_range.max})
    ELSE IF c.name = "get_milky_way_boundary_for_area"
    THEN {c.min_longitude, c.max_longitude}
    ELSE {}

\* C7: ensure_angle_range maps every angle a to r with 0 <= r < 360 and
\* r congruent to a modulo 360, and is idempotent; so the longitude bounds that
\* select_stars and get_milky_way_boundary_for_area put in their queries are
\* inside [0, 360).
C7_NormalizedBounds ==
    /\ \A a \in AnglesOf(call) :
        LET r == ensure_angle_range(a)
        IN /\ 0 <= r /\ r < 360
           /\ (r - a) % 360 = 0
           /\ ensure_angle_range(r) = r
    /\ (Returned("select_stars") \/ Returned("get_milky_way_boundary_for_area")) =>
        LET c == db_log[2].q.ra
        IN c.mode # "any" => (0 <= c.lo /\ c.lo < 360 /\ 0 <= c.hi /\ c.hi < 360)


(***************************************************************************)
(* Properties of the grid passes.                                          *)
(***************************************************************************)
\* The values (whole degrees) of the parallels or meridians the figure has
\* been asked to draw, in drawing order.
RECURSIVE DrawnAt(_, _)
DrawnAt(fig, of) ==
    IF fig = <<>> THEN <<>>
    ELSE (IF Head(fig).op \in {"draw_circle", "draw_line"} /\ Head(fig).shape.of = of
          THEN <<Head(fig).shape.at>> ELSE <<>>) \o DrawnAt(Tail(fig), of)

\* C5: the first parallel draw_parallels draws is increment *
\* floor(min_latitude / increment), the multiple of the increment at or next
\* below the viewport minimum, and every parallel drawn is a multiple of the
\* increment.
C5_ParallelsStartAtAlignedFloor ==
    Returned("draw_parallels") =>
        LET drawn == DrawnAt(figure, "parallel")
            increment == call.increment
        IN /\ drawn # <<>>
           /\ 2 * drawn[1] <= map.min_latitude
           /\ map.min_latitude < 2 * (drawn[1] + increment)
           /\ \A i \in DOMAIN drawn : drawn[i] % increment = 0

\* With increment 10 and min_latitude -37 the first parallel drawn is -40.
C5_Witness ==
    /\ Returned("draw_parallels")
    /\ call.increment = 10
    /\ map.min_latitude = -74
    /\ DrawnAt(figure, "parallel") # <<>>
    /\ DrawnAt(figure, "parallel")[1] = -40

\* C6: for a viewport that crosses the 0/360 seam (min_longitude above
\* max_longitude, such as 350 and 10), which is in the wrap-around case
\* max_longitude - 360 < min_longitude, draw_meridians iterates up to one
\* increment past max_longitude, and so visits and draws meridians.
C6_WrapAroundMeridiansDrawn ==
    (Returned("draw_meridians") /\ map.min_longitude > map.max_longitude) =>
        LET drawn == DrawnAt(figure, "meridian")
            increment == call.increment
            first == increment * (map.min_longitude \div (2 * increment))
            last == PyInt(map.max_longitude)
        IN (last - 360 < first) =>
            /\ drawn = PyRange(first, last + increment, increment)
            /\ drawn # <<>>

\* C21: within one draw_meridians call on a viewport whose longitude span
\* max_longitude - min_longitude is between 0 and 360 degrees inclusive, no
\* two meridians drawn are congruent modulo 360 (such as 0 and 360), for
\* every increment dividing 360, min_longitude aligned to it or not.
C21_NoMeridianDrawnTwice ==
    (/\ Returned("draw_meridians")
     /\ 360 % call.increment = 0
     /\ map.max_longitude - map.min_longitude \in 0..720) =>
        LET drawn == DrawnAt(figure, "meridian")
        IN \A i, j \in DOMAIN drawn :
              i # j => drawn[i] % 360 # drawn[j] % 360

\* C22: every parallel draw_parallels draws has a latitude at or below the
\* viewport's max_latitude, negative non-integer values included (with
\* max_latitude -5.5 and increment 5 no parallel is drawn at -5), and the
\* parallels drawn are exactly the multiples of the increment from
\* increment * floor(min_latitude / increment) up to max_latitude, each
\* once, in increasing order.
C22_ParallelsWithinMaxLatitude ==
    Returned("draw_parallels") =>
        LET drawn == DrawnAt(figure, "parallel")
            increment == call.increment
            first == increment * (map.min_latitude \div (2 * increment))
            aligned == {l \in first..(map.max_latitude \div 2) :
                           (l - first) % increment = 0}
        IN /\ \A i \in DOMAIN drawn : 2 * drawn[i] <= map.max_latitude
           /\ \A l \in aligned :
                 Cardinality({i \in DOMAIN drawn : drawn[i] = l}) = 1
           /\ \A i \in DOMAIN drawn : i > 1 => drawn[i - 1] < drawn[i]


(***************************************************************************)
(* Properties of the geometry.                                             *)
(***************************************************************************)
\* The axes on which the extents of the call's two shapes intersect partially,
\* and the length they share on each axis.
OverlapCase ==
    LET a == Extent(call.self)
        b == Extent(call.other)
        xs == Min2(a.xhi, b.xhi) - Max2(a.xlo, b.xlo)
        ys == Min2(a.yhi, b.yhi) - Max2(a.ylo, b.ylo)
        part(lo1, hi1, lo2, hi2) ==
            \/ lo1 < lo2 /\ lo2 < hi1 /\ hi1 < hi2
            \/ lo2 < lo1 /\ lo1 < hi2 /\ hi2 < hi1
    IN [disjoint |-> xs <= 0 \/ ys <= 0,
        xshared |-> xs, yshared |-> ys,
        xpartial |-> part(a.xlo, a.xhi, b.xlo, b.xhi),
        ypartial |-> part(a.ylo, a.yhi, b.ylo, b.yhi)]

OverlapIs(self, other, value) ==
    (Returned("Rectangle.overlap") /\ call.self = self /\ call.other = other)
        => ret.value = value

\* C8: the overlap of two rectangles is never negative, is 0 when they are
\* disjoint, and is the length their extents share along the axis on which the
\* extents intersect partially; the unit square and the square moved right by
\* 0.5 overlap by 0.5.
C8_RectangleRectangleOverlap ==
    (Returned("Rectangle.overlap") /\ call.other.kind = "Rectangle") =>
        LET c == OverlapCase
        IN /\ ret.value >= 0
           /\ c.disjoint => ret.value = 0
           /\ (~c.disjoint /\ c.xpartial /\ ~c.ypartial) => ret.value = c.xshared
           /\ (~c.disjoint /\ c.ypartial /\ ~c.xpartial) => ret.value = c.yshared
           /\ OverlapIs(TestR1, TestR2, 500000)

C8_Witness ==
    /\ Returned("Rectangle.overlap")
    /\ call.self = TestR1 /\ call.other = TestR2
    /\ ret.value = 500000

\* C9: the overlap of a rectangle and a circle is 0 when the circle's bounding
\* extent is disjoint from the rectangle, and the depth by which that extent
\* passes the border it crosses when it crosses the borders of one axis only;
\* the literal cases of the tests give 0.5, 0, 0, 0 and 1.5 - 1.05834 (numbers
\* in millionths).
C9_RectangleCircleOverlap ==
    (Returned("Rectangle.overlap") /\ call.other.kind = "Circle") =>
        LET c == OverlapCase
        IN /\ ret.value >= 0
           /\ c.disjoint => ret.value = 0
           /\ (~c.disjoint /\ c.xpartial /\ ~c.ypartial) => ret.value = c.xshared
           /\ (~c.disjoint /\ c.ypartial /\ ~c.xpartial) => ret.value = c.yshared
           /\ OverlapIs(TestR1, TestC1, 500000)
           /\ OverlapIs(TestR1, TestC2, 0)
           /\ OverlapIs(TestR3, TestC3, 0)
           /\ OverlapIs(TestR3, TestC4, 0)
           /\ OverlapIs(TestR3, TestC5, 1500000 - 1058340)

C9_Witness ==
    /\ Returned("Rectangle.overlap")
    /\ call.self = TestR3 /\ call.other = TestC5
    /\ ret.value = 441660

\* C10: the center of a rectangle is the midpoint of its two defining corners,
\* equal as a Point to that midpoint; Rectangle((1, 2), (5, 3)).center is
\* (3, 2.5) (numbers in quarters).
C10_RectangleCenter ==
    Returned("Rectangle.center") =>
        LET p1 == call.self.p1
            p2 == call.self.p2
        IN /\ \E mx \in Min2(p1.x, p2.x)..Max2(p1.x, p2.x),
                 my \in Min2(p1.y, p2.y)..Max2(p1.y, p2.y) :
                /\ 2 * mx = p1.x + p2.x
                /\ 2 * my = p1.y + p2.y
                /\ ret.value = Point(mx, my)
           /\ call.self = TestCenterRectangle => ret.value = Point(12, 10)

C10_Witness ==
    /\ Returned("Rectangle.center")
    /\ call.self = TestCenterRectangle
    /\ ret.value = Point(12, 10)


(***************************************************************************)
(* Properties of the chart passes.                                         *)
(***************************************************************************)
\* The page point lies within the map's border rectangle, the clipped viewport.
InsideBorder(p) ==
    /\ map.border.p1.x <= p.x /\ p.x <= map.border.p2.x
    /\ map.border.p1.y <= p.y /\ p.y <= map.border.p2.y

\* The star's point that a draw call of the star pass is drawn at or placed by.
AnchorOf(e) ==
    CASE e.op = "draw_point" -> e.p
      [] e.op = "draw_circle" -> e.shape.center
      [] e.op = "draw_line" -> e.shape.p1.from
      [] e.op = "draw_text" -> e.p.from

\* C11: draw_star makes no draw call (no point, circle, line or text) for a
\* star whose projected point is not inside the viewport and draws at least one
\* point for a star whose projected point is inside; so after draw_stars every
\* symbol and label in the figure is that of a returned star whose point is
\* inside the border rectangle, and every such star has its point.
C11_OnlyStarsInsideViewport ==
    /\ Returned("draw_star") =>
        LET p == map_point(map, call.star.position)
        IN IF InsideBorder(p)
           THEN \E i \in DOMAIN figure : figure[i].op = "draw_point" /\ figure[i].p = p
           ELSE figure = <<>>
    /\ Returned("draw_stars") =>
        LET stars == call.catalog.stars
            inside == {k \in DOMAIN stars : InsideBorder(map_point(map, stars[k].position))}
        IN /\ \A i \in DOMAIN figure :
                figure[i].op # "comment" =>
                    \E k \in inside : AnchorOf(figure[i]) = map_point(map, stars[k].position)
           /\ \A k \in inside :
                \E i \in DOMAIN figure :
                    /\ figure[i].op = "draw_point"
                    /\ figure[i].p = map_point(map, stars[k].position)

\* draw_stars was given a star inside the viewport and one outside it, and
\* drew the first only.
C11_Witness ==
    /\ Returned("draw_stars")
    /\ Len(call.catalog.stars) = 2
    /\ InsideBorder(map_point(map, call.catalog.stars[1].position))
    /\ ~InsideBorder(map_point(map, call.catalog.stars[2].position))
    /\ Len(figure) > 1
    /\ \A i \in DOMAIN figure :
            figure[i].op # "comment" =>
                AnchorOf(figure[i]) = map_point(map, call.catalog.stars[1].position)

\* The labels of the figure with the position tag pos, in drawing order.
LabelsAt(pos) == SelectSeq(figure, LAMBDA e : e.op = "draw_text" /\ e.pos = pos)

\* C12: draw_ticks makes exactly one label for each point in which the curve
\* meets a border, at that point, with the given text and the tag of the
\* border: "bot" for bottom_border, "top" for top_border, "rt" for
\* right_border, "lft" for left_border; the bottom and top borders are looked
\* at only when the horizontal-axis flag is set, the right and left borders
\* only when the vertical-axis flag is set, and a curve that meets no border
\* gets no label.
C12_TicksTaggedByBorder ==
    Returned("draw_ticks") =>
        LET tagged(border, pos, examined) ==
                LET points == inclusive_intersect_line(call.draw_object, border)
                    labels == LabelsAt(pos)
                IN IF examined
                   THEN /\ Len(labels) = Len(points)
                        /\ \A i \in DOMAIN labels :
                                labels[i].p = points[i] /\ labels[i].p.on = border
                   ELSE labels = <<>>
        IN /\ tagged("bottom_border", "bot", call.horizontal_axis)
           /\ tagged("top_border", "top", call.horizontal_axis)
           /\ tagged("right_border", "rt", call.vertical_axis)
           /\ tagged("left_border", "lft", call.vertical_axis)
           /\ \A i \in DOMAIN figure :
                /\ figure[i].op = "draw_text"
                /\ figure[i].text = call.text
                /\ figure[i].pos \in {"bot", "top", "rt", "lft"}
           /\ Len(figure) = Len(LabelsAt("bot")) + Len(LabelsAt("top"))
                              + Len(LabelsAt("rt")) + Len(LabelsAt("lft"))

\* A circle that meets the bottom border twice and the top border nowhere,
\* with the horizontal-axis flag only, got two labels, both "bot".
C12_Witness ==
    /\ Returned("draw_ticks")
    /\ call.draw_object.shape = "Circle"
    /\ call.horizontal_axis /\ ~call.vertical_axis
    /\ Len(figure) = 2
    /\ figure[1].pos = "bot" /\ figure[2].pos = "bot"
    /\ figure[1].p # figure[2].p
    /\ inclusive_intersect_line(call.draw_object, "top_border") = <<>>

\* The map's bounding box, as the catalog functions are given it.
BoundingBox == <<map.min_longitude, map.max_longitude, map.min_latitude, map.max_latitude>>

\* The pass that makes a figure call: "" for the calls no catalog pass makes.
PassOf(e) ==
    CASE e.op = "draw_polygon" -> "get_constellation_boundaries_for_area"
      [] e.op = "draw_line" /\ e.linewidth = "0.5" -> "get_milky_way_boundary_for_area"
      [] e.op = "draw_point" -> "select_stars"
      [] e.op = "draw_circle" /\ e.linewidth = "0.15" -> "select_stars"
      [] e.op = "draw_line" /\ e.linewidth = "0.25" -> "select_stars"
      [] e.op = "draw_text" /\ e.size = "tiny" -> "select_stars"
      [] OTHER -> ""

\* The catalog function fn was called exactly once, with the map's bounding
\* box, and before the first draw call of its pass.
QueriedOnceBeforeDrawing(fn) ==
    /\ Cardinality({k \in DOMAIN db_log : db_log[k].fn = fn}) = 1
    /\ \A k \in DOMAIN db_log :
        db_log[k].fn = fn =>
            /\ db_log[k].box = BoundingBox
            /\ db_log[k].at <= Len(figure)
            /\ \A i \in DOMAIN figure : PassOf(figure[i]) = fn => db_log[k].at < i

\* C13: draw_constellation_boundaries, draw_stars and draw_milky_way each
\* call their catalog function exactly once, with the map's (min_longitude,
\* max_longitude, min_latitude, max_latitude), and have its result before
\* their first draw call; one render makes exactly three catalog calls, one
\* per pass, all with the same bounding box.
C13_OneQueryPerPass ==
    /\ Returned("draw_constellation_boundaries") =>
        Len(db_log) = 1 /\ QueriedOnceBeforeDrawing("get_constellation_boundaries_for_area")
    /\ Returned("draw_stars") =>
        Len(db_log) = 1 /\ QueriedOnceBeforeDrawing("select_stars")
    /\ Returned("draw_milky_way") =>
        Len(db_log) = 1 /\ QueriedOnceBeforeDrawing("get_milky_way_boundary_for_area")
    /\ Returned("render") =>
        /\ Len(db_log) = 3
        /\ QueriedOnceBeforeDrawing("get_constellation_boundaries_for_area")
        /\ QueriedOnceBeforeDrawing("get_milky_way_boundary_for_area")
        /\ QueriedOnceBeforeDrawing("select_stars")
        /\ \A j, k \in DOMAIN db_log : db_log[j].box = db_log[k].box

\* A render whose three passes each drew something made its three catalog calls.
C13_Witness ==
    /\ Returned("render")
    /\ Len(db_log) = 3
    /\ \A fn \in {"get_constellation_boundaries_for_area",
                  "get_milky_way_boundary_for_area", "select_stars"} :
            \E i \in DOMAIN figure : PassOf(figure[i]) = fn

\* The positions in the figure of the calls with the given op, in order.
PositionsOf(op) == SelectSeq([i \in DOMAIN figure |-> i], LAMBDA i : figure[i].op = op)

\* C14: the clip rectangle render gives the figure is the viewport, from
\* (left margin, bottom margin) to (paper width - right margin, paper height -
\* top margin); the border rectangle drawn after it has the same two corners,
\* and the rectangle drawn after that, the page bounding box, reaches from
\* (0, 0) to (paper width, paper height).
C14_ClipIsViewport ==
    Returned("render") =>
        LET self == call.self
            left == self.margin_lr[1]
            right == self.margin_lr[2]
            bottom == self.margin_bt[1]
            top == self.margin_bt[2]
            width == self.paper_size[1]
            height == self.paper_size[2]
            clips == PositionsOf("clip")
            rectangles == PositionsOf("draw_rectange")
        IN /\ Len(clips) = 1 /\ Len(rectangles) = 2
           /\ clips[1] < rectangles[1] /\ rectangles[1] < rectangles[2]
           /\ figure[clips[1]].ll = Point(left, bottom)
           /\ figure[clips[1]].ur = Point(width - right, height - top)
           /\ Rectangle(figure[clips[1]].ll, figure[clips[1]].ur) = map.border
           /\ figure[rectangles[1]].ll = figure[clips[1]].ll
           /\ figure[rectangles[1]].ur = figure[clips[1]].ur
           /\ figure[rectangles[2]].ll = Point(0, 0)
           /\ figure[rectangles[2]].ur = Point(width, height)

\* On the 210 x 297 page with margins 10 and 30, 15 and 25, render clipped to
\* (10, 15) - (180, 272).
C14_Witness ==
    /\ Returned("render")
    /\ call.self.paper_size = <<210, 297>>
    /\ \E i \in DOMAIN figure :
        /\ figure[i].op = "clip"
        /\ figure[i].ll = Point(10, 15) /\ figure[i].ur = Point(180, 272)
        /\ figure[i + 1].op = "draw_rectange"
        /\ figure[i + 2].ur = Point(210, 297)

\* C19: for any sequence of edges the catalog returns,
\* draw_constellation_boundaries draws no edge whose identifier is the
\* identifier or the complement of an edge it drew earlier in the call, skips
\* an edge only if its identifier is the identifier or the complement of an
\* edge drawn earlier, and emits every edge it draws as an open polygon
\* (closed = FALSE) of the edge's projected interpolated points.
C19_BoundariesDrawnOnce ==
    Returned("draw_constellation_boundaries") =>
        LET edges == call.catalog.boundaries
            polygons == SelectSeq(figure, LAMBDA e : e.op = "draw_polygon")
            names(i) == {edges[i].identifier, edges[i].complement}
            projected(i) == [k \in DOMAIN edges[i].interpolated_points |->
                                map_point(map, edges[i].interpolated_points[k])]
        IN \E drawn \in SUBSET DOMAIN edges :
            LET order == SelectSeq([i \in DOMAIN edges |-> i], LAMBDA i : i \in drawn)
            IN /\ Len(polygons) = Len(order)
               /\ \A k \in DOMAIN order :
                    /\ polygons[k].polygon.points = projected(order[k])
                    /\ polygons[k].polygon.closed = FALSE
               /\ \A i \in drawn, j \in drawn :
                    i < j => edges[j].identifier \notin names(i)
               /\ \A j \in DOMAIN edges \ drawn :
                    \E i \in drawn : i < j /\ edges[j].identifier \in names(i)

\* The catalog returned a boundary, the same boundary from the neighbouring
\* constellation, and another boundary: the first and the third were drawn.
C19_Witness ==
    /\ Returned("draw_constellation_boundaries")
    /\ Len(call.catalog.boundaries) = 3
    /\ call.catalog.boundaries[1].identifier = "AB"
    /\ call.catalog.boundaries[2].identifier = "BA"
    /\ call.catalog.boundaries[2].complement = "AB"
    /\ call.catalog.boundaries[3].identifier = "CD"
    /\ Len(SelectSeq(figure, LAMBDA e : e.op = "draw_polygon")) = 2
    /\ figure[3].polygon.points[1] = map_point(map, PositionC)

\* The drawing pass that makes a figure call, by what it draws: the grid
\* passes draw curves of line width 0.2 and small labels.
DrawnBy(e) ==
    IF e.op \in {"draw_circle", "draw_line"} /\ e.linewidth = "0.2"
    THEN e.shape.of
    ELSE IF e.op = "draw_text" /\ e.size = "small"
    THEN e.p.curve.of
    ELSE IF e.op = "comment"
    THEN (CASE e.text = "Parallels" -> "parallel"
            [] e.text = "Meridians" -> "meridian"
            [] e.text = "Constellation boundaries" -> "get_constellation_boundaries_for_area"
            [] e.text = "Stars" -> "select_stars")
    ELSE PassOf(e)

\* C20: render runs the five drawing passes once each, in the order
\* parallels, meridians, constellation boundaries, Milky Way, stars; it gives
\* the clip only after all five and before the border rectangle and the page
\* bounding-box rectangle; end_figure follows both rectangles and the
\* writer's render(filename) is the last call; no draw call of a pass comes
\* after the clip.
C20_RenderOrder ==
    Returned("render") =>
        LET rank(pass) ==
                CASE pass = "parallel" -> 1
                  [] pass = "meridian" -> 2
                  [] pass = "get_constellation_boundaries_for_area" -> 3
                  [] pass = "get_milky_way_boundary_for_area" -> 4
                  [] pass = "select_stars" -> 5
            n == Len(figure)
            clip == n - 4
        IN /\ n >= 9
           \* the passes, in order, before the clip
           /\ \A i \in 1..(clip - 1) : DrawnBy(figure[i]) # ""
           /\ \A i \in 1..(clip - 2) :
                rank(DrawnBy(figure[i])) <= rank(DrawnBy(figure[i + 1]))
           \* once each: one opening comment for each pass that has one, and
           \* one catalog call for each pass that has one, in the order of the passes
           /\ \A text \in {"Parallels", "Meridians", "Constellation boundaries", "Stars"} :
                Cardinality({i \in 1..n : figure[i].op = "comment" /\ figure[i].text = text}) = 1
           /\ [k \in DOMAIN db_log |-> db_log[k].fn] =
                <<"get_constellation_boundaries_for_area",
                  "get_milky_way_boundary_for_area", "select_stars">>
           /\ \A k \in DOMAIN db_log : \A i \in 1..(clip - 1) :
                /\ rank(DrawnBy(figure[i])) < rank(db_log[k].fn) => i <= db_log[k].at
                /\ rank(DrawnBy(figure[i])) > rank(db_log[k].fn) => i > db_log[k].at
           \* the clip, the two rectangles, end_figure, render
           /\ [i \in 1..5 |-> figure[clip + i - 1].op] =
                <<"clip", "draw_rectange", "draw_rectange", "end_figure", "render">>
           /\ figure[n].filename = call.self.filename
           /\ \A i \in 1..n : figure[i].op = "clip" => i = clip

\* A render in which every pass drew something ended with the clip, the two
\* rectangles, end_figure and render.
C20_Witness ==
    /\ Returned("render")
    /\ \A pass \in {"parallel", "meridian", "get_constellation_boundaries_for_area",
                    "get_milky_way_boundary_for_area", "select_stars"} :
            \E i \in DOMAIN figure : figure[i].op # "comment" /\ DrawnBy(figure[i]) = pass
    /\ figure[Len(figure)].op = "render"
    /\ figure[Len(figure) - 4].op = "clip"


C16_ChunksPartition ==
    Returned("chunks") =>
        LET l == call.l
            n == call.n
            parts == ret.value
            before(k) == Len(Flatten(SubSeq(parts, 1, k - 1)))
        IN /\ Len(parts) = n
           /\ Flatten(parts) = l
           /\ \A k \in DOMAIN parts :
                parts[k] = SubSeq(l, before(k) + 1, before(k) + Len(parts[k]))
           /\ \A i \in DOMAIN l :
                Cardinality({k \in DOMAIN parts : l[i] \in Range(parts[k])}) = 1

\* A list of two elements came in four chunks, the last two empty.
C16_Witness ==
    /\ Returned("chunks")
    /\ call.l = <<1, 2>> /\ call.n = 4
    /\ ret.value = << <<1>>, <<2>>, <<>>, <<>> >>

\* C17: for every line whose latitude text is '-DD MM', '-00 MM' with
\* MM > 0 among them, extract_point returns a point whose latitude is
\* -(DD + MM/60) degrees; a latitude between -1 and 0 degrees never comes back
\* positive.
C17_LatitudeSignPreserved ==
    (Returned("extract_point") /\ call.line.matches /\ call.line.lat.minus) =>
        /\ ret.value # None
        /\ ret.value.latitude = -(60 * call.line.lat.dd + call.line.lat.mm)
        /\ (call.line.lat.dd = 0 /\ call.line.lat.mm > 0) => ret.value.latitude < 0

\* The MOVE and DRAW lines among the first i lines of a file, and the DRAW
\* lines among them.
PenLines(lines, i) == {j \in 1..i : lines[j].word \in {"MOVE", "DRAW"}}

DrawLines(lines, i) == {j \in 1..i : lines[j].word = "DRAW"}

\* The inserts into milkyway among the database events.
Inserted == SelectSeq(db_log, LAMBDA e : e.ev = "commit_query" /\ "id" \in DOMAIN e)

\* The inserts are those of a pen that reads the lines in order from the
\* edge id first: one for each DRAW line, the k-th with the id first + k - 1,
\* from the point of the MOVE or DRAW line last read before it to its own
\* point; blank lines, comments and MOVE lines insert nothing.
PenMachine(lines, first, inserts) ==
    LET draws == SelectSeq([j \in DOMAIN lines |-> j], LAMBDA j : lines[j].word = "DRAW")
    IN /\ Len(inserts) = Len(draws)
       /\ \A k \in DOMAIN draws :
            LET j == draws[k]
                last == CHOOSE x \in PenLines(lines, j - 1) :
                            \A y \in PenLines(lines, j - 1) : y <= x
            IN /\ inserts[k].id = first + k - 1
               /\ inserts[k].p2 = ExtractPoint(lines[j])
               /\ PenLines(lines, j - 1) # {}
               /\ inserts[k].p1 = ExtractPoint(lines[last])

====
